---------------------------- MODULE Spec2Model ----------------------------
(***************************************************************************)
(* A model of class AutoModifyingAI (src/auto_modifying_ai.py): one        *)
(* instance, its attributes, and the calls a client makes on it.           *)
(*                                                                         *)
(* The instance is the function `self` from attribute names to Python       *)
(* values.  A code string handed to exec() is a sequence of statements,     *)
(* run by Exec the way the interpreter runs them: a binding in the          *)
(* namespace, an assignment to an attribute of `self`, or a raise.          *)
(*                                                                         *)
(* Spec is one client calling the instance; SpecThreads is two threads     *)
(* inside add_method and modify_method, statement by statement; SpecPair   *)
(* is two instances of the class; SpecSnapshot is a client keeping a       *)
(* summary while the metrics change; SpecExamples is the class of the      *)
(* same name in src/examples.py.                                           *)
(***************************************************************************)
EXTENDS Integers, Sequences, FiniteSets, TLC

VARIABLES
    self,    \* the instance: attribute name -> value (its __dict__)
    last,    \* the most recent call on the instance and what the caller got
    frames,  \* per thread: the add_method / modify_method call it is executing
    peer,    \* a second instance of the class
    shared,  \* the attributes whose value is one object held by both instances
    held,    \* the summary a client keeps, and whether its metrics are the instance's
    ai,      \* an instance of the class of the examples module
    calls    \* the calls on `ai` that have returned, counted by method

\* What the calls a single client makes on one instance leave alone
others == <<frames, peer, shared, held, ai, calls>>

\* What the calls on the class of auto_modifying_ai.py leave alone
examples == <<ai, calls>>

vars == <<self, last, frames, peer, shared, held, ai, calls>>

---------------------------------------------------------------------------
(* Bounds of the model *)

MaxHistory == 2   \* longest learning_history explored
MaxCount == 2     \* largest modifications_count explored
MaxCalls == 2     \* calls each thread makes
MaxRecords == 3   \* longest modification_history explored

---------------------------------------------------------------------------
(* Python values: a kind and a payload *)

IntV(n) == [kind |-> "int", val |-> n]
FloatV(p, q) == [kind |-> "float", val |-> <<p, q>>]   \* the quotient p/q, reduced
StrV(s) == [kind |-> "str", val |-> s]
ListV(s) == [kind |-> "list", val |-> s]
DictV(d) == [kind |-> "dict", val |-> d]
FuncV(b) == [kind |-> "function", val |-> b]    \* def f(self): return b
MethodV(b) == [kind |-> "method", val |-> b]    \* a function bound to the instance
NoneV == [kind |-> "none", val |-> 0]
SelfV == [kind |-> "instance", val |-> 0]       \* a reference to the instance
True == [kind |-> "bool", val |-> TRUE]
False == [kind |-> "bool", val |-> FALSE]

EmptyDict == <<>>

\* d[k] = v on a dict / namespace / instance __dict__
SetItem(d, k, v) == [x \in DOMAIN d \cup {k} |-> IF x = k THEN v ELSE d[x]]

\* d.get(k, default)
Get(d, k, default) == IF k \in DOMAIN d THEN d[k] ELSE default

\* dict.update: the entries of e override those of d
Update(d, e) == [x \in DOMAIN d \cup DOMAIN e |-> IF x \in DOMAIN e THEN e[x] ELSE d[x]]

\* callable(v): functions and bound methods; the instance defines no __call__
callable(v) == v.kind \in {"function", "method"}

\* The attributes every instance finds on its class
ClassAttrs == {"add_method", "modify_method", "execute_code", "learn_from_feedback",
               "get_performance_summary", "_get_timestamp", "__repr__", "__str__"}

hasattr(obj, n) == n \in DOMAIN obj \/ n \in ClassAttrs

getattr(obj, n) == IF n \in DOMAIN obj THEN obj[n] ELSE MethodV(n)

setattr(obj, n, v) == SetItem(obj, n, v)

---------------------------------------------------------------------------
(* Code strings: sequences of statements *)

Bind(n, v) == [op |-> "bind", name |-> n, arg |-> v]            \* n = v
Def(n, b) == Bind(n, FuncV(b))                                   \* def n(self): return b
SetSelf(a, v) == [op |-> "setattr", name |-> a, arg |-> v]       \* self.a = v
Raise(e) == [op |-> "raise", name |-> e, arg |-> NoneV]          \* raise e
SetEntry(a, k, v) == [op |-> "setitem", name |-> a, arg |-> DictV([x \in {k} |-> v])]  \* self.a[k] = v
Copy(n, m) == [op |-> "copy", name |-> n, arg |-> StrV(m)]       \* n = m
ReadSelf(n, a) == [op |-> "load", name |-> n, arg |-> StrV(a)]   \* n = self.a

\* The classes `except Exception` catches; SystemExit and KeyboardInterrupt
\* derive from BaseException only
IsException(e) == e \notin {"SystemExit", "KeyboardInterrupt", "GeneratorExit"}

\* exec(code, ns) against the instance obj: the namespace and the instance
\* when the code ends, and how it ended
RECURSIVE Exec(_, _, _)
Exec(code, ns, obj) ==
    IF code = <<>> THEN [outcome |-> "ok", ns |-> ns, obj |-> obj]
    ELSE LET s == Head(code) IN
         CASE s.op = "bind" -> Exec(Tail(code), SetItem(ns, s.name, s.arg), obj)
           [] s.op = "setattr" ->
                IF Get(ns, "self", NoneV) = SelfV
                THEN Exec(Tail(code), ns, setattr(obj, s.name, s.arg))
                ELSE [outcome |-> "Exception", ns |-> ns, obj |-> obj]
           [] s.op = "raise" ->
                [outcome |-> IF IsException(s.name) THEN "Exception" ELSE "BaseException",
                 ns |-> ns, obj |-> obj]
           [] s.op = "setitem" ->
                IF Get(ns, "self", NoneV) = SelfV /\ hasattr(obj, s.name)
                   /\ getattr(obj, s.name).kind = "dict"
                THEN Exec(Tail(code), ns,
                          setattr(obj, s.name,
                                  DictV(Update(getattr(obj, s.name).val, s.arg.val))))
                ELSE [outcome |-> "Exception", ns |-> ns, obj |-> obj]      \* TypeError
           [] s.op = "copy" ->
                IF s.arg.val \in DOMAIN ns
                THEN Exec(Tail(code), SetItem(ns, s.name, ns[s.arg.val]), obj)
                ELSE [outcome |-> "Exception", ns |-> ns, obj |-> obj]      \* NameError
           [] s.op = "load" ->
                IF Get(ns, "self", NoneV) = SelfV /\ hasattr(obj, s.arg.val)
                THEN Exec(Tail(code), SetItem(ns, s.name, getattr(obj, s.arg.val)), obj)
                ELSE [outcome |-> "Exception", ns |-> ns, obj |-> obj]      \* AttributeError

---------------------------------------------------------------------------
(* What a call gives its caller *)

Return(obj, v) == [obj |-> obj, outcome |-> "return", ret |-> v]
Raised(obj, e) == [obj |-> obj, outcome |-> "raise", ret |-> StrV(e)]

---------------------------------------------------------------------------
(* The operations of the class, as functions of the instance and the arguments *)

\* self.modifications_count += 1: a TypeError unless the attribute is a number
Increment(obj) == setattr(obj, "modifications_count",
                          IntV(getattr(obj, "modifications_count").val + 1))

\* add_method(method_name, method_code)
add_method(obj, method_name, method_code) ==
    LET namespace == [x \in {"self"} |-> SelfV]
        r == Exec(method_code, namespace, obj)
        method == Get(r.ns, method_name, NoneV)
        installed == setattr(r.obj, method_name, MethodV(method.val))
    IN  IF r.outcome = "BaseException" THEN Raised(r.obj, "BaseException")
        ELSE IF r.outcome = "Exception" THEN Return(r.obj, False)
        ELSE IF callable(method)
             THEN IF getattr(installed, "modifications_count").kind = "int"
                  THEN Return(Increment(installed), True)
                  ELSE Return(installed, False)      \* TypeError, caught at line 64
             ELSE Return(r.obj, False)

\* The entry modify_method appends
ModifyEntry(method_name, timestamp) ==
    [action |-> "modify", method |-> method_name, timestamp |-> timestamp]

\* The entry learn_from_feedback appends
FeedbackEntry(feedback, success, timestamp) ==
    [feedback |-> feedback, success |-> success, timestamp |-> timestamp]

\* self.learning_history.append(entry), for an attribute that is a list
AppendHistory(obj, entry) ==
    setattr(obj, "learning_history",
            ListV(Append(getattr(obj, "learning_history").val, entry)))

\* A modify that admits the definition whether or not the name exists
modify_method_Upsert(obj, method_name, new_code, timestamp) ==
    LET r == add_method(obj, method_name, new_code)
    IN  IF r.outcome = "return" /\ r.ret = True
             /\ getattr(r.obj, "learning_history").kind = "list"
        THEN Return(AppendHistory(r.obj, ModifyEntry(method_name, timestamp)), True)
        ELSE IF r.outcome = "raise" THEN r ELSE Return(r.obj, False)

\* modify_method(method_name, new_code)
\* A modify_method that records the modification before attempting it
modify_method_EntryFirst(obj, method_name, new_code, timestamp) ==
    IF ~hasattr(obj, method_name) THEN Return(obj, False)
    ELSE IF getattr(obj, "learning_history").kind # "list" THEN Return(obj, False)
    ELSE LET logged == AppendHistory(obj, ModifyEntry(method_name, timestamp))
             r == add_method(logged, method_name, new_code)
         IN  IF r.outcome = "raise" THEN r ELSE Return(r.obj, r.ret)

modify_method(obj, method_name, new_code, timestamp) ==
    IF ~hasattr(obj, method_name) THEN Return(obj, False)
    ELSE LET old_method == getattr(obj, method_name)
             r == add_method(obj, method_name, new_code)
         IN  IF r.outcome = "raise" THEN r            \* not an Exception: not caught
             ELSE IF r.ret = True
                  THEN IF getattr(r.obj, "learning_history").kind = "list"
                       THEN Return(AppendHistory(r.obj, ModifyEntry(method_name, timestamp)),
                                   True)
                       ELSE Return(r.obj, False)     \* AttributeError, caught at line 97
                  ELSE Return(r.obj, False)

\* `if context:` is false for None and for an empty dict
Truthy(context) == context.kind = "dict" /\ DOMAIN context.val # {}

\* execute_code(code, context)
execute_code(obj, code, context) ==
    LET base == [x \in {"self"} |-> SelfV]
        namespace == IF Truthy(context) THEN Update(base, context.val) ELSE base
        r == Exec(code, namespace, obj)
    IN  IF r.outcome = "BaseException" THEN Raised(r.obj, "BaseException")
        ELSE IF r.outcome = "Exception" THEN Return(r.obj, NoneV)
        ELSE Return(r.obj, Get(r.ns, "result", NoneV))

\* learn_from_feedback(feedback, success)
\* A learn_from_feedback that counts the feedback as a modification
learn_from_feedback_Counting(obj, feedback, success, timestamp) ==
    IF getattr(obj, "learning_history").kind = "list"
       /\ getattr(obj, "modifications_count").kind = "int"
    THEN Return(Increment(AppendHistory(obj, FeedbackEntry(feedback, success, timestamp))),
                NoneV)
    ELSE Raised(obj, "AttributeError")

learn_from_feedback(obj, feedback, success, timestamp) ==
    IF getattr(obj, "learning_history").kind = "list"
    THEN Return(AppendHistory(obj, FeedbackEntry(feedback, success, timestamp)), NoneV)
    ELSE Raised(obj, "AttributeError")

RECURSIVE Gcd(_, _)
Gcd(a, b) == IF b = 0 THEN a ELSE Gcd(b, a % b)

\* a / b of two ints: a float, or ZeroDivisionError
TrueDiv(a, b) == IF b = 0 THEN StrV("ZeroDivisionError")
                 ELSE FloatV(a \div Gcd(a, b), b \div Gcd(a, b))

\* sum(1 for item in history if item.get('success', False))
RECURSIVE CountSuccess(_)
CountSuccess(history) ==
    IF history = <<>> THEN 0
    ELSE (IF Get(Head(history), "success", FALSE) THEN 1 ELSE 0)
         + CountSuccess(Tail(history))

\* The quotient without its guard against an empty history
SuccessRate_Unguarded(successful_feedback, total_feedback) ==
    TrueDiv(successful_feedback, total_feedback)

\* The success_rate expression of line 155
SuccessRate(successful_feedback, total_feedback) ==
    IF total_feedback > 0 THEN TrueDiv(successful_feedback, total_feedback) ELSE IntV(0)

\* The dict get_performance_summary builds from a learning_history that is a list
Summary(obj) ==
    LET history == getattr(obj, "learning_history").val
        successful_feedback == CountSuccess(history)
        total_feedback == Len(history)
    IN  [name |-> getattr(obj, "name"),
         version |-> getattr(obj, "version"),
         modifications |-> getattr(obj, "modifications_count"),
         learning_events |-> IntV(total_feedback),
         success_rate |-> SuccessRate(successful_feedback, total_feedback),
         performance_metrics |-> getattr(obj, "performance_metrics")]

\* A summary that records the query as one more learning event
get_performance_summary_Recording(obj) ==
    IF getattr(obj, "learning_history").kind # "list"
    THEN Raised(obj, "TypeError")
    ELSE Return(AppendHistory(obj, FeedbackEntry("summary", TRUE, NoneV)),
                DictV(Summary(obj)))

\* get_performance_summary()
get_performance_summary(obj) ==
    IF getattr(obj, "learning_history").kind # "list"
    THEN Raised(obj, "TypeError")                    \* a method is not iterable
    ELSE IF Summary(obj).success_rate = StrV("ZeroDivisionError")
         THEN Raised(obj, "ZeroDivisionError")
         ELSE Return(obj, DictV(Summary(obj)))

\* ai.rollback(method_name): the class defines no such attribute
rollback(obj, method_name) ==
    IF hasattr(obj, "rollback")
    THEN Raised(obj, "TypeError")       \* an admitted def takes self alone
    ELSE Raised(obj, "AttributeError")

---------------------------------------------------------------------------
(* The arguments a client passes *)

CapabilityNames == {"greet", "calc"}

\* method_name: new names, and names of attributes __init__ has set
MethodNames == CapabilityNames \cup {"learning_history", "modifications_count"}

Bodies == {"A", "B"}

\* Code that defines a function
Definitions ==
    {<<Def("greet", b)>> : b \in Bodies}
    \cup {<<Def(n, "A")>> : n \in MethodNames \ {"greet"}}

\* Code that defines none
Scripts ==
    {<<Bind("result", IntV(3))>>,                  \* result = 3
     <<Bind("result", NoneV)>>,                    \* result = None
     <<Raise("ValueError")>>,
     <<Raise("SystemExit")>>,
     <<SetSelf("modifications_count", IntV(0)), Raise("ValueError")>>,
     <<SetSelf("learning_history", ListV(<< >>))>>,
     <<ReadSelf("result", "modifications_count")>>,  \* result = self.modifications_count
     <<Copy("result", "self")>>}                     \* result = self

Codes == Definitions \cup Scripts

\* The name a definition binds
DefinedName(code) == code[1].name

\* (method_name, code) of the add_method and modify_method calls explored: a
\* definition under its own name, a definition under another name, and code
\* that defines nothing
Admissions ==
    {<<DefinedName(c), c>> : c \in Definitions}
    \cup {<<"calc", <<Def("greet", "A")>> >>}
    \cup {<<"greet", c>> : c \in Scripts}

Contexts == {NoneV, DictV([result |-> IntV(9)]), DictV([self |-> IntV(5)])}

Feedbacks == {"good"}

---------------------------------------------------------------------------
(* The state machine *)

\* _get_timestamp(): the ISO text of the time of the call, which no operation
\* reads back or compares
_get_timestamp == StrV("utcnow().isoformat()")

\* What the caller of an operation holds afterwards; faulted records whether
\* the code the operation executed raised, prior the attribute method_name held
\* when add_method or modify_method was called
Call(op, name, r, faulted, prior) ==
    [op |-> op, name |-> name, outcome |-> r.outcome, ret |-> r.ret, faulted |-> faulted,
     prior |-> prior]

\* The instances the model explores
WithinBounds(obj) ==
    /\ obj["modifications_count"].kind = "int" => obj["modifications_count"].val <= MaxCount
    /\ obj["learning_history"].kind = "list" => Len(obj["learning_history"].val) <= MaxHistory

Faults(code, context) ==
    Exec(code, Update([x \in {"self"} |-> SelfV],
                      IF Truthy(context) THEN context.val ELSE EmptyDict), self).outcome # "ok"

Threads == {1, 2}

\* A thread outside any call
IdleFrame == [pc |-> "idle", op |-> "", name |-> "", code |-> << >>, method |-> NoneV,
              count |-> 0, calls |-> 0, trues |-> 0]

\* The attributes of an instance when __init__ returns
NewInstance(name) ==
    [name |-> StrV(name),
     version |-> StrV("1.0.0"),
     learning_history |-> ListV(<< >>),
     modifications_count |-> IntV(0),
     performance_metrics |-> DictV(EmptyDict)]

\* The client has taken no summary
NothingHeld == [taken |-> FALSE, ret |-> NoneV, same |-> FALSE]

\* examples.AutoModifyingAI.__init__(name), version "1.0.0"
NewExample(name) ==
    [name |-> StrV(name),
     version |-> StrV("1.0.0"),
     knowledge_base |-> DictV(EmptyDict),
     behavior_rules |-> ListV(<< >>),
     performance_metrics |-> DictV(EmptyDict),
     modification_history |-> ListV(<< >>)]

NoCalls == [learn_from_interaction |-> 0, add_custom_behavior |-> 0, self_optimize |-> 0]

\* A list and a dict made once, in the class body, and held by every instance
SharedByInit_ClassLevel == {"learning_history", "performance_metrics"}

\* The list and the dict of lines 34 and 36 are made anew by every __init__:
\* two instances start with no object in common
SharedByInit == {}

\* __init__(name = "AutoModifyingAI"), for both instances
Init ==
    /\ self = NewInstance("AutoModifyingAI")
    /\ peer = NewInstance("AutoModifyingAI")
    /\ shared = SharedByInit
    /\ frames = [t \in Threads |-> IdleFrame]
    /\ held = NothingHeld
    /\ ai = NewExample("LearnBot")
    /\ calls = NoCalls
    /\ last = [op |-> "__init__", name |-> "", outcome |-> "return", ret |-> NoneV,
               faulted |-> FALSE, prior |-> NoneV]

AddMethod(method_name, method_code) ==
    LET r == add_method(self, method_name, method_code) IN
    /\ WithinBounds(r.obj)
    /\ self' = r.obj
    /\ last' = Call("add_method", method_name, r, Faults(method_code, NoneV),
                    Get(self, method_name, NoneV))
    /\ UNCHANGED others

ModifyMethod(method_name, new_code) ==
    LET r == modify_method(self, method_name, new_code, _get_timestamp) IN
    /\ WithinBounds(r.obj)
    /\ self' = r.obj
    /\ last' = Call("modify_method", method_name, r,
                    hasattr(self, method_name) /\ Faults(new_code, NoneV),
                    Get(self, method_name, NoneV))
    /\ UNCHANGED others

ExecuteCode(code, context) ==
    LET r == execute_code(self, code, context) IN
    /\ WithinBounds(r.obj)
    /\ self' = r.obj
    /\ last' = Call("execute_code", "", r, Faults(code, context), NoneV)
    /\ UNCHANGED others

LearnFromFeedback(feedback, success) ==
    LET r == learn_from_feedback(self, feedback, success, _get_timestamp) IN
    /\ WithinBounds(r.obj)
    /\ self' = r.obj
    /\ last' = Call("learn_from_feedback", "", r, FALSE, NoneV)
    /\ UNCHANGED others

GetPerformanceSummary ==
    LET r == get_performance_summary(self) IN
    /\ self' = r.obj
    /\ last' = Call("get_performance_summary", "", r, FALSE, NoneV)
    /\ UNCHANGED others

Rollback(method_name) ==
    LET r == rollback(self, method_name) IN
    /\ self' = r.obj
    /\ last' = Call("rollback", method_name, r, FALSE, NoneV)
    /\ UNCHANGED others

Next ==
    \/ \E a \in Admissions : AddMethod(a[1], a[2])
    \/ \E a \in Admissions : ModifyMethod(a[1], a[2])
    \/ \E c \in Scripts, x \in Contexts : ExecuteCode(c, x)
    \/ \E f \in Feedbacks, s \in BOOLEAN : LearnFromFeedback(f, s)
    \/ GetPerformanceSummary
    \/ \E n \in CapabilityNames : Rollback(n)

Spec == Init /\ [][Next]_vars

-----------------------------------------------------------------------------
(* Two threads calling add_method and modify_method on the one instance.   *)
(* The class takes no lock, so a call is a sequence of steps on `self`,     *)
(* each a read or a write of an attribute, and the steps of the two         *)
(* threads interleave.  frames[t].count is the value `+=` has loaded,       *)
(* frames[t].trues the number of calls of thread t that returned True.      *)

ThreadCalls ==
    { <<"add_method", "greet", <<Def("greet", "A")>> >>,
      <<"modify_method", "greet", <<Def("greet", "B")>> >>,
      <<"add_method", "greet", <<Raise("ValueError")>> >> }

\* The call of thread t returns ret (or, ret being NoneV, raises)
Finish(f, ret) ==
    [f EXCEPT !.pc = "idle", !.trues = IF ret = True THEN @ + 1 ELSE @]

Begin(t, op, method_name, code) ==
    /\ frames[t].pc = "idle"
    /\ frames[t].calls < MaxCalls
    /\ frames' = [frames EXCEPT ![t] =
                    [pc |-> IF op = "modify_method" THEN "check" ELSE "exec",
                     op |-> op, name |-> method_name, code |-> code, method |-> NoneV,
                     count |-> 0, calls |-> frames[t].calls + 1,
                     trues |-> frames[t].trues]]
    /\ UNCHANGED <<self, last, peer, shared, held, examples>>

\* modify_method, lines 79-85: hasattr, then old_method (read, never used)
StepCheck(t) ==
    /\ frames[t].pc = "check"
    /\ frames' = [frames EXCEPT ![t] =
                    IF hasattr(self, frames[t].name)
                    THEN [@ EXCEPT !.pc = "exec"]
                    ELSE Finish(@, False)]
    /\ UNCHANGED <<self, last, peer, shared, held, examples>>

\* add_method, lines 51-59: exec, namespace.get, callable
StepExec(t) ==
    /\ frames[t].pc = "exec"
    /\ LET r == Exec(frames[t].code, [x \in {"self"} |-> SelfV], self)
           method == Get(r.ns, frames[t].name, NoneV)
       IN  /\ self' = r.obj
           /\ frames' = [frames EXCEPT ![t] =
                           IF r.outcome = "BaseException" THEN Finish(@, NoneV)
                           ELSE IF r.outcome = "Exception" THEN Finish(@, False)
                           ELSE IF callable(method)
                                THEN [@ EXCEPT !.pc = "setattr", !.method = method]
                                ELSE Finish(@, False)]
    /\ UNCHANGED <<last, peer, shared, held, examples>>

\* add_method, line 60
StepSetattr(t) ==
    /\ frames[t].pc = "setattr"
    /\ self' = setattr(self, frames[t].name, MethodV(frames[t].method.val))
    /\ frames' = [frames EXCEPT ![t].pc = "load"]
    /\ UNCHANGED <<last, peer, shared, held, examples>>

\* add_method, line 61: `+=` reads the attribute ...
StepLoad(t) ==
    /\ frames[t].pc = "load"
    /\ frames' = [frames EXCEPT ![t] =
                    IF getattr(self, "modifications_count").kind = "int"
                    THEN [@ EXCEPT !.pc = "store",
                                   !.count = getattr(self, "modifications_count").val]
                    ELSE Finish(@, False)]         \* TypeError, caught at line 64
    /\ UNCHANGED <<self, last, peer, shared, held, examples>>

\* ... and writes it back, one more; add_method returns True at line 62
StepStore(t) ==
    /\ frames[t].pc = "store"
    /\ self' = setattr(self, "modifications_count", IntV(frames[t].count + 1))
    /\ frames' = [frames EXCEPT ![t] =
                    IF frames[t].op = "modify_method"
                    THEN [@ EXCEPT !.pc = "append"]
                    ELSE Finish(@, True)]
    /\ UNCHANGED <<last, peer, shared, held, examples>>

\* modify_method, lines 88-95: the entry is appended, True is returned
StepAppend(t) ==
    /\ frames[t].pc = "append"
    /\ IF getattr(self, "learning_history").kind = "list"
       THEN /\ self' = AppendHistory(self, ModifyEntry(frames[t].name, _get_timestamp))
            /\ frames' = [frames EXCEPT ![t] = Finish(@, True)]
       ELSE /\ self' = self                        \* AttributeError, caught at line 97
            /\ frames' = [frames EXCEPT ![t] = Finish(@, False)]
    /\ UNCHANGED <<last, peer, shared, held, examples>>

ThreadNext ==
    \E t \in Threads :
        \/ \E c \in ThreadCalls : Begin(t, c[1], c[2], c[3])
        \/ StepCheck(t)
        \/ StepExec(t)
        \/ StepSetattr(t)
        \/ StepLoad(t)
        \/ StepStore(t)
        \/ StepAppend(t)

SpecThreads == Init /\ [][ThreadNext]_vars

-----------------------------------------------------------------------------
(* Two instances, `self` and `peer`, and the calls a client makes on        *)
(* either.  An attribute in `shared` holds one object for both instances:   *)
(* what a call changes inside that object (list.append) the other instance  *)
(* sees, while an attribute the call assigns anew is shared no longer.      *)

Instances == {1, 2}

Inst(i) == IF i = 1 THEN self ELSE peer

PairAdmissions == { <<"greet", <<Def("greet", "A")>> >> }

\* code that touches only its own `self`
PairScripts == { <<SetSelf("modifications_count", IntV(0)), Raise("ValueError")>> }

\* self.learning_history.append(entry): the list object itself is changed
AppendedTo(old, new) ==
    /\ old.kind = "list" /\ new.kind = "list"
    /\ Len(new.val) = Len(old.val) + 1
    /\ SubSeq(new.val, 1, Len(old.val)) = old.val

\* The other instance, once a call has taken this one from `before` to `after`
Aliased(other, before, after) ==
    [a \in DOMAIN other |->
        IF a \in shared /\ a \in DOMAIN after /\ AppendedTo(before[a], after[a])
        THEN after[a]
        ELSE other[a]]

\* The attributes still holding one object for both (an assignment of an
\* equal value is taken as no assignment)
StillShared(before, after) ==
    {a \in shared : a \in DOMAIN after
                    /\ (after[a] = before[a] \/ AppendedTo(before[a], after[a]))}

\* A call on instance i with result r
On(i, r) ==
    /\ WithinBounds(r.obj)
    /\ IF i = 1
       THEN self' = r.obj /\ peer' = Aliased(peer, self, r.obj)
       ELSE peer' = r.obj /\ self' = Aliased(self, peer, r.obj)
    /\ shared' = StillShared(Inst(i), r.obj)
    /\ UNCHANGED <<last, frames, held, examples>>

PairAddMethod(i, method_name, method_code) ==
    On(i, add_method(Inst(i), method_name, method_code))

PairModifyMethod(i, method_name, new_code) ==
    On(i, modify_method(Inst(i), method_name, new_code, _get_timestamp))

PairExecuteCode(i, code, context) ==
    On(i, execute_code(Inst(i), code, context))

PairLearnFromFeedback(i, feedback, success) ==
    On(i, learn_from_feedback(Inst(i), feedback, success, _get_timestamp))

\* Any of the calls, made on instance i
PairCall(i) ==
    \/ \E a \in PairAdmissions : PairAddMethod(i, a[1], a[2])
    \/ \E a \in PairAdmissions : PairModifyMethod(i, a[1], a[2])
    \/ \E c \in PairScripts : PairExecuteCode(i, c, NoneV)
    \/ \E f \in Feedbacks, s \in BOOLEAN : PairLearnFromFeedback(i, f, s)

PairNext == \E i \in Instances : PairCall(i)

SpecPair == Init /\ [][PairNext]_vars

-----------------------------------------------------------------------------
(* A client that keeps the result of get_performance_summary while the      *)
(* instance's performance_metrics are updated, and that writes into the     *)
(* metrics of the result it keeps.                                          *)

\* Line 156: the result's 'performance_metrics' is self.performance_metrics,
\* the dict itself and no copy of it
ReturnsOwnMetrics == TRUE

MetricNames == {"accuracy", "speed"}

MetricValues == {IntV(1), IntV(2)}

\* The summary, its 'performance_metrics' being the dict m
WithMetrics(summary, m) == DictV([summary.val EXCEPT !.performance_metrics = m])

\* summary = ai.get_performance_summary()
TakeSummary ==
    LET r == get_performance_summary(self) IN
    /\ r.outcome = "return"
    /\ self' = r.obj
    /\ last' = Call("get_performance_summary", "", r, FALSE, NoneV)
    /\ held' = [taken |-> TRUE, ret |-> r.ret, same |-> ReturnsOwnMetrics]
    /\ UNCHANGED <<frames, peer, shared, examples>>

\* ai.execute_code("self.performance_metrics[k] = v"): the dict is changed in
\* place, for whoever holds it
UpdateMetrics(k, v) ==
    LET code == <<SetEntry("performance_metrics", k, v)>>
        r == execute_code(self, code, NoneV)
    IN  /\ self' = r.obj
        /\ last' = Call("execute_code", "", r, Faults(code, NoneV), NoneV)
        /\ held' = IF held.taken /\ held.same
                   THEN [held EXCEPT !.ret = WithMetrics(@, r.obj["performance_metrics"])]
                   ELSE held
        /\ UNCHANGED <<frames, peer, shared, examples>>

\* ai.execute_code("self.performance_metrics = {}"): the attribute is bound to
\* another dict
ResetMetrics ==
    LET code == <<SetSelf("performance_metrics", DictV(EmptyDict))>>
        r == execute_code(self, code, NoneV)
    IN  /\ self' = r.obj
        /\ last' = Call("execute_code", "", r, Faults(code, NoneV), NoneV)
        /\ held' = [held EXCEPT !.same = FALSE]
        /\ UNCHANGED <<frames, peer, shared, examples>>

\* summary['performance_metrics'][k] = v, by the client
ChangeHeld(k, v) ==
    /\ held.taken
    /\ LET m == DictV(Update(held.ret.val.performance_metrics.val, [x \in {k} |-> v])) IN
       /\ held' = [held EXCEPT !.ret = WithMetrics(@, m)]
       /\ self' = IF held.same THEN setattr(self, "performance_metrics", m) ELSE self
    /\ UNCHANGED <<last, frames, peer, shared, examples>>

SnapshotNext ==
    \/ TakeSummary
    \/ \E k \in MetricNames, v \in MetricValues : UpdateMetrics(k, v)
    \/ ResetMetrics
    \/ \E k \in MetricNames, v \in MetricValues : ChangeHeld(k, v)

SpecSnapshot == Init /\ [][SnapshotNext]_vars

-----------------------------------------------------------------------------
(* The class AutoModifyingAI of src/examples.py: an instance `ai` with a     *)
(* knowledge base, behaviour rules and a modification history, and the      *)
(* calls the examples make on it.  `calls` counts, by method, the calls     *)
(* that have returned (for self_optimize: those made with metrics present). *)

\* len(d) of a dict
DictLen(d) == Cardinality(DOMAIN d)

\* f"interaction_{n}"
FormatKey(n) == <<"interaction_", n>>

\* A key that does not depend on the size of the knowledge base
InteractionKey_Fixed(knowledge_base) == FormatKey(0)

\* key = f"interaction_{len(self.knowledge_base)}"
InteractionKey(knowledge_base) == FormatKey(DictLen(knowledge_base))

AppendTo(obj, attr, item) == setattr(obj, attr, ListV(Append(getattr(obj, attr).val, item)))

\* _record_modification(modification_type, modification_data)
_record_modification(obj, modification_type, modification_data, timestamp) ==
    AppendTo(obj, "modification_history",
             [type |-> modification_type,
              timestamp |-> timestamp,
              data |-> modification_data,
              version |-> getattr(obj, "version")])

\* _update_behavior_rules(feedback)
_update_behavior_rules(obj, feedback, timestamp) ==
    LET rule == [type |-> "adaptive_rule", feedback_source |-> feedback,
                 created_at |-> timestamp, active |-> TRUE]
    IN  _record_modification(AppendTo(obj, "behavior_rules", rule),
                             "behavior_update", rule, timestamp)

\* learn_from_interaction(user_input, feedback)
learn_from_interaction(obj, user_input, feedback, timestamp) ==
    LET learning_record == [timestamp |-> timestamp, input |-> user_input,
                            feedback |-> feedback, processed |-> TRUE]
        knowledge_base == getattr(obj, "knowledge_base").val
        key == InteractionKey(knowledge_base)
        learned == setattr(obj, "knowledge_base",
                           DictV(SetItem(knowledge_base, key, learning_record)))
    IN  Return(_update_behavior_rules(learned, feedback, timestamp), NoneV)

\* sum(d.values())
RECURSIVE SumValues(_)
SumValues(d) ==
    IF DOMAIN d = {} THEN 0
    ELSE LET k == CHOOSE x \in DOMAIN d : TRUE
         IN  d[k].val + SumValues([x \in DOMAIN d \ {k} |-> d[x]])

\* self_optimize()
self_optimize(obj, timestamp) ==
    LET performance_metrics == getattr(obj, "performance_metrics").val IN
    IF DOMAIN performance_metrics = {} THEN Return(obj, NoneV)
    ELSE LET avg_performance == TrueDiv(SumValues(performance_metrics),
                                        DictLen(performance_metrics))
             optimization == [type |-> "self_optimization",
                              avg_performance |-> avg_performance,
                              rules_count |-> Len(getattr(obj, "behavior_rules").val),
                              timestamp |-> timestamp]
         IN  Return(_record_modification(obj, "optimization_cycle", optimization,
                                         timestamp), NoneV)

\* A callable that has no __name__ (a functools.partial, an object with __call__)
PartialV(b) == [kind |-> "partial", val |-> b]

\* add_custom_behavior(behavior_name, behavior_func)
add_custom_behavior(obj, behavior_name, behavior_func, timestamp) ==
    IF behavior_func.kind # "function"
    THEN Raised(obj, "AttributeError")             \* behavior_func.__name__, line 110
    ELSE LET behavior == [name |-> behavior_name, type |-> "custom_behavior",
                          callable |-> behavior_func.val, added_at |-> timestamp]
         IN  Return(_record_modification(AppendTo(obj, "behavior_rules", behavior),
                                         "behavior_addition", behavior, timestamp),
                    NoneV)

UserInputs == {"User input 1"}

ExampleFeedbacks == {"Great response", "Excellent"}

BehaviorNames == {"test_behavior"}

\* The callables handed in, by their __name__
BehaviorFuncs == {FuncV("safety_check"), FuncV("<lambda>"), PartialV("safety_check")}

ExampleMetrics ==
    {DictV(EmptyDict),
     DictV([accuracy |-> IntV(1)]),
     DictV([accuracy |-> IntV(1), speed |-> IntV(2)])}

Counted(method) == [calls EXCEPT ![method] = @ + 1]

ExampleBound(obj) == Len(getattr(obj, "modification_history").val) <= MaxRecords

LearnFromInteraction(user_input, feedback) ==
    LET r == learn_from_interaction(ai, user_input, feedback, _get_timestamp) IN
    /\ ExampleBound(r.obj)
    /\ ai' = r.obj
    /\ calls' = Counted("learn_from_interaction")
    /\ UNCHANGED <<self, last, frames, peer, shared, held>>

AddCustomBehavior(behavior_name, behavior_func) ==
    LET r == add_custom_behavior(ai, behavior_name, behavior_func, _get_timestamp) IN
    /\ ExampleBound(r.obj)
    /\ ai' = r.obj
    /\ calls' = IF r.outcome = "return" THEN Counted("add_custom_behavior") ELSE calls
    /\ UNCHANGED <<self, last, frames, peer, shared, held>>

SelfOptimize ==
    LET r == self_optimize(ai, _get_timestamp) IN
    /\ ExampleBound(r.obj)
    /\ ai' = r.obj
    /\ calls' = IF Truthy(getattr(ai, "performance_metrics"))
                THEN Counted("self_optimize") ELSE calls
    /\ UNCHANGED <<self, last, frames, peer, shared, held>>

\* ai.performance_metrics = {...}, by the client
SetMetrics(metrics) ==
    /\ ai' = setattr(ai, "performance_metrics", metrics)
    /\ UNCHANGED <<self, last, frames, peer, shared, held, calls>>

ExamplesNext ==
    \/ \E u \in UserInputs, f \in ExampleFeedbacks : LearnFromInteraction(u, f)
    \/ \E n \in BehaviorNames, f \in BehaviorFuncs : AddCustomBehavior(n, f)
    \/ SelfOptimize
    \/ \E m \in ExampleMetrics : SetMetrics(m)

SpecExamples == Init /\ [][ExamplesNext]_vars

---------------------------------------------------------------------------
(* Vocabulary of the properties *)

\* The last call was add_method or modify_method and returned True
Admitted ==
    /\ last.op \in {"add_method", "modify_method"}
    /\ last.outcome = "return"
    /\ last.ret = True

\* The last call was add_method or modify_method and returned False
Refused ==
    /\ last.op \in {"add_method", "modify_method"}
    /\ last.outcome = "return"
    /\ last.ret = False

\* learning_history is (still) the list of entries
IsLedger(obj) == obj["learning_history"].kind = "list"

Ledger(obj) == obj["learning_history"].val

IsPrefix(s, t) == Len(s) <= Len(t) /\ SubSeq(t, 1, Len(s)) = s

\* Entries recording an admission, entries recording feedback
IsModification(e) == "action" \in DOMAIN e
IsFeedback(e) == "feedback" \in DOMAIN e

ModificationEvents(obj) == SelectSeq(Ledger(obj), IsModification)
FeedbackEvents(obj) == SelectSeq(Ledger(obj), IsFeedback)

\* The version the instance reports for capability n.  The class keeps one
\* counter of admissions, modifications_count (reported as 'modifications'),
\* and no counter per name; a name never admitted has version 0.
ReportedVersion(obj, n) ==
    IF n \in DOMAIN obj /\ obj[n].kind = "method" /\ obj["modifications_count"].kind = "int"
    THEN obj["modifications_count"].val
    ELSE 0

---------------------------------------------------------------------------
(* C1..C10 *)

\* C1: a successful admission of a capability name raises the version reported
\* for that name by one (so that N admissions give version N), and leaves the
\* version reported for every other name as it was.
C1_VersionCountsAdmissions ==
    [][Admitted' =>
         \A n \in CapabilityNames :
            ReportedVersion(self', n) =
               IF last'.name = n THEN ReportedVersion(self, n) + 1
               ELSE ReportedVersion(self, n)]_vars

\* C2: a rollback that follows a successful modify of the same capability
\* returns, makes the implementation that was active before the modify active
\* again, and lowers the version by exactly 1.
C2_RollbackRestores ==
    [][(Admitted /\ last.op = "modify_method"
        /\ last'.op = "rollback" /\ last'.name = last.name) =>
         /\ last'.outcome = "return"
         /\ self'[last.name] = last.prior
         /\ ReportedVersion(self', last.name) = ReportedVersion(self, last.name) - 1]_vars

\* C3: an add_method or modify_method call that returns False leaves the
\* instance exactly as it was before the call.
C3_RefusalChangesNothing ==
    [][Refused' => self' = self]_vars

\* C4: a successful admission (here: of a capability name, into an intact
\* ledger) appends exactly one modification event to the ledger: 'add' from
\* add_method, 'modify' from modify_method, naming the method.
C4_AdmissionAppendsEvent ==
    [][(Admitted' /\ last'.name \in CapabilityNames /\ IsLedger(self)) =>
         /\ IsLedger(self')
         /\ Len(ModificationEvents(self')) = Len(ModificationEvents(self)) + 1
         /\ Len(Ledger(self')) = Len(Ledger(self)) + 1
         /\ LET e == Ledger(self')[Len(Ledger(self'))] IN
               /\ IsModification(e)
               /\ e.method = last'.name
               /\ e.action = IF last'.op = "add_method" THEN "add" ELSE "modify"]_vars

\* C5: the ledger is append-only: over every step, learning_history stays a
\* list and its value before the step is a prefix of its value after it.
C5_LedgerAppendOnly ==
    [][IsLedger(self) => IsLedger(self') /\ IsPrefix(Ledger(self), Ledger(self'))]_vars

\* Numeric equality of a Python number with the quotient p/q
NumEq(v, p, q) ==
    \/ v.kind = "int" /\ v.val * q = p
    \/ v.kind = "float" /\ v.val[1] * q = p * v.val[2]

\* The feedback entries whose success flag is set
IsSuccess(e) == IsFeedback(e) /\ e.success

\* C6: in every state whose ledger holds feedback, the success_rate that
\* get_performance_summary reports is (feedback entries with success set) /
\* (feedback entries); modification events are not counted.
C6_RateOverFeedbackOnly ==
    (IsLedger(self) /\ Len(FeedbackEvents(self)) > 0) =>
        LET r == get_performance_summary(self) IN
        /\ r.outcome = "return"
        /\ NumEq(r.ret.val.success_rate,
                 Len(SelectSeq(Ledger(self), IsSuccess)), Len(FeedbackEvents(self)))

Seen(r) == <<r.outcome, r.ret>>

\* C9: what an execution that faulted handed its caller is never what an
\* execution that completes (and may set no result) would hand it.
C9_FaultToldApart ==
    (last.op = "execute_code" /\ last.faulted) =>
        \A c \in Scripts, x \in Contexts :
            ~Faults(c, x) => Seen(execute_code(self, c, x)) # Seen(last)

\* C10: execute_code returns a value, and add_method and modify_method return
\* a boolean, whatever the code does: no exception reaches the caller.
C10_NoFaultEscapes ==
    /\ last.op = "execute_code" => last.outcome = "return"
    /\ last.op \in {"add_method", "modify_method"} =>
          last.outcome = "return" /\ last.ret \in {True, False}

---------------------------------------------------------------------------
(* C11..C20 *)

\* C11: an execute_code call whose code raised leaves the instance as it was
\* before the call, whatever the code assigned through self before raising.
C11_FaultedExecutionChangesNothing ==
    [][(last'.op = "execute_code" /\ last'.faulted) => self' = self]_vars

\* C12: execute_code is deterministic in its inputs: for every code and
\* context, a call made after a step returns what the same call would have
\* returned before it (hence the same at any two points of a run).
C12_ExecutionDeterministic ==
    [][\A c \in Scripts, x \in Contexts :
          Seen(execute_code(self', c, x)) = Seen(execute_code(self, c, x))]_vars

\* C13: for every context, also one that holds the key 'self', the name self
\* inside the executed code denotes the instance execute_code was called on:
\* the code `result = self` hands the caller that instance.
C13_SelfDenotesInstance ==
    [][\A x \in Contexts :
          ExecuteCode(<<Copy("result", "self")>>, x) =>
              last'.outcome = "return" /\ last'.ret = SelfV]_vars

\* C17: modify_method on a name that is an attribute of the instance but was
\* never admitted through add_method (here the data fields learning_history
\* and modifications_count) returns False and replaces nothing.
C17_ModifyOnlyAdmitted ==
    [][(last'.op = "modify_method"
        /\ last'.name \in MethodNames \ CapabilityNames
        /\ last'.prior.kind # "method") =>
           /\ last'.outcome = "return"
           /\ last'.ret = False
           /\ self' = self]_vars

\* C18: modify_method on a name the instance does not have returns False and
\* leaves every attribute as it was: the ledger, the counter, the admitted
\* methods; the name is not created.
C18_ModifyUnknownIsNoOp ==
    [][(last'.op = "modify_method" /\ ~hasattr(self, last'.name)) =>
           /\ last'.outcome = "return"
           /\ last'.ret = False
           /\ self' = self]_vars

\* C18 happens: modify_method was refused for a name that is absent, on an
\* instance that holds an admitted method and a ledger entry
C18_Witness ==
    /\ last.op = "modify_method"
    /\ last.outcome = "return"
    /\ last.ret = False
    /\ last.name = "calc"
    /\ last.prior = NoneV
    /\ ~hasattr(self, "calc")
    /\ hasattr(self, "greet")
    /\ IsLedger(self)
    /\ Len(Ledger(self)) > 0

\* Whether code, run as add_method runs it, ends having bound a callable to n
DefinesCallable(code, n) ==
    LET r == Exec(code, [x \in {"self"} |-> SelfV], self) IN
    r.outcome = "ok" /\ callable(Get(r.ns, n, NoneV))

\* C20: add_method with code that defines a callable under method_name
\* returns True and leaves that definition, bound to the instance, as the
\* attribute method_name; with code that binds no callable under method_name
\* it returns False and the attribute method_name is as it was.
C20_AddMethodAdmitsCallables ==
    [][\A a \in Admissions :
          (AddMethod(a[1], a[2]) /\ last'.outcome = "return") =>
              IF DefinesCallable(a[2], a[1])
              THEN /\ last'.ret = True
                   /\ hasattr(self', a[1])
                   /\ self'[a[1]] = MethodV(a[2][1].arg.val)
              ELSE /\ last'.ret = False
                   /\ Get(self', a[1], NoneV) = Get(self, a[1], NoneV)]_vars


\* C14: a step that installs a capability's implementation is the step that
\* advances modifications_count: no thread sees the one without the other
C14_InstallAndCountTogether ==
    [][(\E n \in CapabilityNames : Get(self', n, NoneV) # Get(self, n, NoneV))
          => self'["modifications_count"] # self["modifications_count"]]_vars

\* C15: a step of modify_method changes the method or modifications_count
\* exactly when it appends the "modify" entry to learning_history
C15_ChangeAndEventTogether ==
    [][\A t \in Threads :
          (frames[t].op = "modify_method" /\ frames'[t] # frames[t])
          => ((\/ self'["modifications_count"] # self["modifications_count"]
               \/ Get(self', frames[t].name, NoneV) # Get(self, frames[t].name, NoneV))
              <=> Ledger(self') # Ledger(self))]_vars

Sum2(f) == f[1] + f[2]

\* C16: when no call is in progress, modifications_count is the number of
\* calls that returned True
C16_NoIncrementLost ==
    (\A t \in Threads : frames[t].pc = "idle")
    => self["modifications_count"] = IntV(Sum2([t \in Threads |-> frames[t].trues]))


\* C19: a call on one instance leaves the other instance exactly as it was,
\* its methods, modifications_count, learning_history and
\* performance_metrics included
C19_InstancesShareNothing ==
    [][/\ PairCall(1) => peer' = peer
       /\ PairCall(2) => self' = self]_vars

\* One instance has admitted and modified greet and taken a feedback entry;
\* the other is as __init__ left it, without greet
C19_Witness ==
    /\ hasattr(self, "greet")
    /\ self["modifications_count"] = IntV(2)
    /\ Len(Ledger(self)) = 2
    /\ peer = NewInstance("AutoModifyingAI")
    /\ ~hasattr(peer, "greet")

---------------------------------------------------------------------------
(* C21..C26 *)

\* C21: modify_method on a name that is a method, with code that defines a
\* callable under that name, returns True and leaves the new definition as
\* the method of that name
C21_ModifyInstallsNewDefinition ==
    [][\A a \in Admissions :
          (/\ ModifyMethod(a[1], a[2])
           /\ a[1] \in CapabilityNames
           /\ Get(self, a[1], NoneV).kind = "method"
           /\ DefinesCallable(a[2], a[1])
           /\ last'.outcome = "return")
          => /\ last'.ret = True
             /\ self'[a[1]] = MethodV(a[2][1].arg.val)]_vars

\* C22: modifications_count stays an integer, one more after each
\* add_method / modify_method call that returned True and the same after any
\* other call, and version stays "1.0.0"
C22_CountIsNumberOfAdmissions ==
    [][self["modifications_count"].kind = "int"
       => /\ self'["modifications_count"].kind = "int"
          /\ self'["modifications_count"].val
               = self["modifications_count"].val + (IF Admitted' THEN 1 ELSE 0)
          /\ self'["version"] = StrV("1.0.0")]_vars

\* C23: a modify_method call that returns True leaves the method installed,
\* modifications_count one higher and learning_history one entry longer, the
\* new last entry being the "modify" entry of that name; one that returns
\* False leaves learning_history no longer than it was
C23_ModifyAppendsOneEntry ==
    [][(last'.op = "modify_method" /\ last'.outcome = "return")
       => /\ last'.ret = True
             => /\ self'[last'.name].kind = "method"
                /\ self'["modifications_count"]
                     = IntV(self["modifications_count"].val + 1)
                /\ IsLedger(self')
                /\ Ledger(self') = Append(Ledger(self),
                                          ModifyEntry(last'.name, _get_timestamp))
          /\ (last'.ret = False /\ IsLedger(self) /\ IsLedger(self'))
             => Len(Ledger(self')) <= Len(Ledger(self))]_vars

\* greet was admitted and then modified: the counter is 2 and the entry of
\* the modification is the last of learning_history
C23_Witness ==
    /\ last.op = "modify_method" /\ last.outcome = "return" /\ last.ret = True
    /\ last.name = "greet"
    /\ self["modifications_count"] = IntV(2)
    /\ IsLedger(self) /\ Len(Ledger(self)) > 0
    /\ Ledger(self)[Len(Ledger(self))] = ModifyEntry("greet", _get_timestamp)

C25_MetricsAreSnapshot ==
    [][(held.taken /\ held'.taken)
       => \/ self'["performance_metrics"] = self["performance_metrics"]
          \/ held'.ret.val.performance_metrics = held.ret.val.performance_metrics]_vars

\* The sizes of the three collections of `ai` agree with the calls made
ExampleCounts ==
    /\ DictLen(ai["knowledge_base"].val) = calls["learn_from_interaction"]
    /\ DOMAIN ai["knowledge_base"].val
         = {FormatKey(n) : n \in 0 .. calls["learn_from_interaction"] - 1}
    /\ Len(ai["behavior_rules"].val)
         = calls["learn_from_interaction"] + calls["add_custom_behavior"]
    /\ Len(ai["modification_history"].val)
         = Len(ai["behavior_rules"].val) + calls["self_optimize"]

=============================================================================
